---- MODULE Spec2Model ----
(***************************************************************************)
(* A model of SvgRenderer (src/src/svg-renderer.js): the quirks-mode SVG   *)
(* normalization and measurement pipeline.                                  *)
(*                                                                         *)
(* DOM trees are values.  An element is                                    *)
(*   [kind |-> "elem", localName, attrs, childNodes]                       *)
(* where attrs is a function whose domain is the set of attribute names    *)
(* the element has, and a text node is [kind |-> "text", data] where data  *)
(* is a sequence of characters.  Markup text is a sequence of tokens.      *)
(* Numbers are counted in quarters of a document unit (4 stands for 1,     *)
(* 2 for 0.5), so that halving a stroke width stays exact.                 *)
(***************************************************************************)
EXTENDS Integers, Sequences, FiniteSets, TLC

VARIABLES svgDom, svgTag, measurements, cachedImage, pending, canvas,
          bodyChildren, last

vars == <<svgDom, svgTag, measurements, cachedImage, pending, canvas,
          bodyChildren, last>>

(***************************************************************************)
(* Bounds of the model.                                                    *)
(***************************************************************************)
MaxTextLen == 3
MaxPending == 2
MaxPasses == 2

(***************************************************************************)
(* JavaScript values.                                                      *)
(***************************************************************************)
\* getAttribute's answer for an attribute the element does not have; no
\* attribute value of the model equals it.
JsNull == "<null>"
\* this._svgDom and this._svgTag before the first loadString.
Undefined == [undefined |-> TRUE]
\* this._cachedImage when there is none.
NoImage == [none |-> TRUE]

NoAttrs == [a \in {} |-> ""]

(***************************************************************************)
(* The DOM operations the renderer uses.                                   *)
(***************************************************************************)
TextNode(s) == [kind |-> "text", data |-> s]

Element(name, attrs, kids) ==
    [kind |-> "elem", localName |-> name, attrs |-> attrs, childNodes |-> kids]

IsElem(n) == n.kind = "elem"

\* createSVGElement(tag) of ./font-inliner: a new, empty element.
createSVGElement(name) == Element(name, NoAttrs, <<>>)

getAttribute(e, n) == IF n \in DOMAIN e.attrs THEN e.attrs[n] ELSE JsNull

\* JavaScript truthiness of a string-or-null: null and "" are falsy.
Truthy(v) == v # JsNull /\ v # ""

setAttribute(e, n, v) ==
    [e EXCEPT !.attrs = [a \in (DOMAIN e.attrs) \cup {n} |->
                            IF a = n THEN v ELSE e.attrs[a]]]

removeAttribute(e, n) ==
    [e EXCEPT !.attrs = [a \in (DOMAIN e.attrs) \ {n} |-> e.attrs[a]]]

childElementCount(e) ==
    Cardinality({i \in DOMAIN e.childNodes : IsElem(e.childNodes[i])})

RECURSIVE textContent(_)
RECURSIVE ConcatText(_, _)
ConcatText(kids, i) ==
    IF i > Len(kids) THEN <<>>
    ELSE textContent(kids[i]) \o ConcatText(kids, i + 1)

textContent(n) ==
    IF IsElem(n) THEN ConcatText(n.childNodes, 1) ELSE n.data

\* element.textContent = s : every child is replaced by one text node, or by
\* nothing when s is empty.
SetTextContent(e, s) ==
    [e EXCEPT !.childNodes = IF s = <<>> THEN <<>> ELSE <<TextNode(s)>>]

appendChild(e, c) == [e EXCEPT !.childNodes = Append(e.childNodes, c)]

\* String.prototype.split('\n')
RECURSIVE Split(_)
Split(s) ==
    IF \A i \in DOMAIN s : s[i] # "\n" THEN <<s>>
    ELSE LET i == CHOOSE k \in DOMAIN s :
                     s[k] = "\n" /\ \A j \in 1..(k - 1) : s[j] # "\n"
         IN  <<SubSeq(s, 1, i - 1)>> \o Split(SubSeq(s, i + 1, Len(s)))

(***************************************************************************)
(* Numbers and their strings.                                              *)
(***************************************************************************)
Abs(q) == IF q < 0 THEN 0 - q ELSE q

Frac(r) == CASE r = 0 -> ""
             [] r = 1 -> ".25"
             [] r = 2 -> ".5"
             [] r = 3 -> ".75"

\* String(number), as setAttribute and the template literal apply it.
FormatNum(q) ==
    (IF q < 0 THEN "-" ELSE "") \o ToString(Abs(q) \div 4) \o Frac(Abs(q) % 4)

\* The strings of the model that Number(string) reads as a number; for every
\* other string Number answers NaN.
NumericStrings == {"", "0", "0.5", "1", "2", "3", "-2"}

\* Number(string) for a numeric string of the model.
Number(s) == CASE s = "" -> 0
               [] s = "0" -> 0
               [] s = "0.5" -> 2
               [] s = "1" -> 4
               [] s = "2" -> 8
               [] s = "3" -> 12
               [] s = "-2" -> 0 - 8

\* Number(s) || 0 : NaN and 0 are falsy.
NumberOrZero(s) == IF s \in NumericStrings THEN Number(s) ELSE 0

MathMax(a, b) == IF a >= b THEN a ELSE b

(***************************************************************************)
(* Markup text: DOMParser.parseFromString and XMLSerializer.               *)
(***************************************************************************)
OpenTok(name, attrs) == [t |-> "open", localName |-> name, attrs |-> attrs]
CloseTok(name) == [t |-> "close", localName |-> name]
CharsTok(s) == [t |-> "chars", data |-> s]
JunkTok == [t |-> "junk"]

RECURSIVE SerializeNode(_)
RECURSIVE SerializeNodes(_, _)
SerializeNodes(kids, i) ==
    IF i > Len(kids) THEN <<>>
    ELSE SerializeNode(kids[i]) \o SerializeNodes(kids, i + 1)

SerializeNode(n) ==
    IF IsElem(n)
    THEN <<OpenTok(n.localName, n.attrs)>> \o SerializeNodes(n.childNodes, 1)
             \o <<CloseTok(n.localName)>>
    ELSE IF n.data = <<>> THEN <<>> ELSE <<CharsTok(n.data)>>

serializeToString(doc) == SerializeNodes(doc.childNodes, 1)

\* The nodes that start at token i, up to the first token that is not the
\* start of a node: [nodes, next, ok].
RECURSIVE ParseNodes(_, _)
ParseNodes(toks, i) ==
    IF i > Len(toks) THEN [nodes |-> <<>>, next |-> i, ok |-> TRUE]
    ELSE LET tok == toks[i] IN
      CASE tok.t = "close" -> [nodes |-> <<>>, next |-> i, ok |-> TRUE]
        [] tok.t = "junk" -> [nodes |-> <<>>, next |-> i, ok |-> FALSE]
        [] tok.t = "chars" ->
             LET rest == ParseNodes(toks, i + 1) IN
             IF rest.nodes # <<>> /\ ~IsElem(rest.nodes[1])
             THEN [rest EXCEPT !.nodes =
                      <<TextNode(tok.data \o rest.nodes[1].data)>>
                          \o Tail(rest.nodes)]
             ELSE [rest EXCEPT !.nodes = <<TextNode(tok.data)>> \o rest.nodes]
        [] tok.t = "open" ->
             LET inner == ParseNodes(toks, i + 1) IN
             IF inner.ok /\ inner.next <= Len(toks)
                  /\ toks[inner.next] = CloseTok(tok.localName)
             THEN LET rest == ParseNodes(toks, inner.next + 1) IN
                  [rest EXCEPT !.nodes =
                      <<Element(tok.localName, tok.attrs, inner.nodes)>>
                          \o rest.nodes]
             ELSE [nodes |-> <<>>, next |-> i, ok |-> FALSE]

\* What a parser answers for text that is not well-formed XML.
ParserErrorDocument ==
    [childNodes |-> <<Element("parsererror", NoAttrs, <<>>)>>]

\* DOMParser.parseFromString(text, 'text/xml').  The empty text yields a
\* document without nodes; other ill-formed text yields the parser's error
\* document.
parseFromString(toks) ==
    IF toks = <<>> THEN [childNodes |-> <<>>]
    ELSE LET r == ParseNodes(toks, 1) IN
         IF r.ok /\ r.next = Len(toks) + 1 /\ Len(r.nodes) = 1
              /\ IsElem(r.nodes[1])
         THEN [childNodes |-> r.nodes]
         ELSE ParserErrorDocument

documentElement(doc) == doc.childNodes[1]

(***************************************************************************)
(* Paths into a tree: the sequence of child positions from the root.       *)
(***************************************************************************)
RECURSIVE NodeAt(_, _)
NodeAt(n, path) ==
    IF path = <<>> THEN n ELSE NodeAt(n.childNodes[Head(path)], Tail(path))

RECURSIVE ReplaceAt(_, _, _)
ReplaceAt(n, path, new) ==
    IF path = <<>> THEN new
    ELSE [n EXCEPT !.childNodes[Head(path)] =
             ReplaceAt(n.childNodes[Head(path)], Tail(path), new)]

(***************************************************************************)
(* _transformText                                                          *)
(***************************************************************************)
\* collectText: the text elements, in document order.
RECURSIVE collectText(_, _)
RECURSIVE CollectTextKids(_, _, _)
CollectTextKids(n, path, i) ==
    IF i > Len(n.childNodes) THEN <<>>
    ELSE collectText(n.childNodes[i], Append(path, i))
             \o CollectTextKids(n, path, i + 1)

\* A variant that takes the line nodes for text elements too.
RECURSIVE collectTextAndLines(_, _)
RECURSIVE CollectLinesKids(_, _, _)
CollectLinesKids(n, path, i) ==
    IF i > Len(n.childNodes) THEN <<>>
    ELSE collectTextAndLines(n.childNodes[i], Append(path, i))
             \o CollectLinesKids(n, path, i + 1)

collectTextAndLines(domElement, path) ==
    IF ~IsElem(domElement) THEN <<>>
    ELSE (IF domElement.localName \in {"text", "tspan"} THEN <<path>> ELSE <<>>)
             \o CollectLinesKids(domElement, path, 1)

collectText(domElement, path) ==
    IF ~IsElem(domElement) THEN <<>>
    ELSE (IF domElement.localName = "text" THEN <<path>> ELSE <<>>)
             \o CollectTextKids(domElement, path, 1)

RemovePosition(textElement) ==
    removeAttribute(removeAttribute(textElement, "x"), "y")

SetAlignment(textElement) ==
    setAttribute(textElement, "alignment-baseline", "text-before-edge")

\* A variant that writes the default over whatever is there.
DefaultFontSizeAlways(textElement) ==
    setAttribute(textElement, "font-size", "14")

DefaultFontSize(textElement) ==
    IF ~Truthy(getAttribute(textElement, "font-size"))
    THEN setAttribute(textElement, "font-size", "14")
    ELSE textElement

DefaultFontFamily(textElement) ==
    IF ~Truthy(getAttribute(textElement, "font-family"))
    THEN setAttribute(textElement, "font-family", "Helvetica")
    ELSE textElement

TspanNode(line) ==
    SetTextContent(
        setAttribute(setAttribute(createSVGElement("tspan"), "x", "0"),
                     "dy", "1.2em"),
        line)

RECURSIVE AppendLines(_, _, _)
AppendLines(textElement, lines, i) ==
    IF i > Len(lines) THEN textElement
    ELSE AppendLines(appendChild(textElement, TspanNode(lines[i])), lines, i + 1)

\* A variant without the childElementCount test.
FixLineBreaksAlways(textElement) ==
    LET text == textContent(textElement) IN
    IF text # <<>>
    THEN AppendLines(SetTextContent(textElement, <<>>), Split(text), 1)
    ELSE textElement

\* A variant that does not clear the text before it appends the lines.
FixLineBreaksKeepText(textElement) ==
    LET text == textContent(textElement) IN
    IF text # <<>> /\ childElementCount(textElement) = 0
    THEN AppendLines(textElement, Split(text), 1)
    ELSE textElement

FixLineBreaks(textElement) ==
    LET text == textContent(textElement) IN
    IF text # <<>> /\ childElementCount(textElement) = 0
    THEN AppendLines(SetTextContent(textElement, <<>>), Split(text), 1)
    ELSE textElement

\* The body of the loop over the text elements.
ApplyQuirks(textElement) ==
    FixLineBreaks(DefaultFontFamily(DefaultFontSize(
        SetAlignment(RemovePosition(textElement)))))

RECURSIVE QuirksLoop(_, _, _)
QuirksLoop(tree, textElements, i) ==
    IF i > Len(textElements) THEN tree
    ELSE QuirksLoop(
             ReplaceAt(tree, textElements[i],
                       ApplyQuirks(NodeAt(tree, textElements[i]))),
             textElements, i + 1)

\* convertFonts of ./font-converter, which resolves the font references of
\* the tree: it leaves the elements, attributes and text of the model as they
\* are.
convertFonts(tag) == tag

_transformText(tag) == convertFonts(QuirksLoop(tag, collectText(tag, <<>>), 1))

(***************************************************************************)
(* _findLargestStrokeWidth                                                 *)
(***************************************************************************)
StrokeStep(domElement, largest) ==
    LET a == IF Truthy(getAttribute(domElement, "stroke"))
             THEN MathMax(largest, 4) ELSE largest
    IN  IF Truthy(getAttribute(domElement, "stroke-width"))
        THEN MathMax(a, NumberOrZero(getAttribute(domElement, "stroke-width")))
        ELSE a

RECURSIVE collectStrokeWidths(_, _)
RECURSIVE CollectStrokeKids(_, _, _)
CollectStrokeKids(kids, i, largest) ==
    IF i > Len(kids) THEN largest
    ELSE CollectStrokeKids(kids, i + 1, collectStrokeWidths(kids[i], largest))

collectStrokeWidths(domElement, largest) ==
    IF IsElem(domElement)
    THEN CollectStrokeKids(domElement.childNodes, 1,
                           StrokeStep(domElement, largest))
    ELSE largest

_findLargestStrokeWidth(rootNode) == collectStrokeWidths(rootNode, 0)

(***************************************************************************)
(* toString                                                                *)
(***************************************************************************)
\* inlineSvgFonts of ./font-inliner: the font data of a tree that has text
\* is embedded in it as a style element.
inlineSvgFonts(root) ==
    IF collectText(root, <<>>) = <<>> THEN root
    ELSE [root EXCEPT !.childNodes =
             <<Element("style", NoAttrs, <<TextNode(<<"@font-face">>)>>)>> \o @]

toString(dom, shouldInjectFonts) ==
    IF shouldInjectFonts /\ dom.childNodes # <<>>
    THEN serializeToString(
             [dom EXCEPT !.childNodes[1] = inlineSvgFonts(documentElement(dom))])
    ELSE serializeToString(dom)

(***************************************************************************)
(* The environment of one loadString call: whether convertFonts, the two   *)
(* appendChild calls and getBBox succeed, and the box getBBox answers.     *)
(***************************************************************************)
BBoxes ==
    { [x |-> 0, y |-> 0, width |-> 0, height |-> 0],
      [x |-> 0 - 4, y |-> 2, width |-> 10, height |-> 6] }

OkEnv(b) == [fonts |-> "ok", body |-> "ok", adopt |-> "ok", getBBox |-> "ok",
             bbox |-> b]

AnyBBox == [x |-> 0, y |-> 0, width |-> 0, height |-> 0]

OkEnvs == {OkEnv(b) : b \in BBoxes}

FailEnvs ==
    { [OkEnv(AnyBBox) EXCEPT !.fonts = "throw"],
      [OkEnv(AnyBBox) EXCEPT !.body = "throw"],
      [OkEnv(AnyBBox) EXCEPT !.adopt = "throw"],
      [OkEnv(AnyBBox) EXCEPT !.getBBox = "throw"] }

Envs == OkEnvs \cup FailEnvs

(***************************************************************************)
(* _transformMeasurements                                                  *)
(***************************************************************************)
\* The renderer's fields, as one record.
Renderer ==
    [svgDom |-> svgDom, svgTag |-> svgTag, measurements |-> measurements,
     cachedImage |-> cachedImage, bodyChildren |-> bodyChildren]

\* The try block: what it leaves and what it throws ("none": nothing).
\* Appending the tag to the span takes it out of its own document.
TryBlock(st, env) ==
    IF env.body = "throw" THEN [st |-> st, thrown |-> "AttachFailure"]
    ELSE LET s1 == [st EXCEPT !.bodyChildren = @ \cup {"svgSpot"}] IN
         IF env.adopt = "throw" THEN [st |-> s1, thrown |-> "AttachFailure"]
         ELSE LET s2 == [s1 EXCEPT !.svgDom = [childNodes |-> <<>>]] IN
              IF env.getBBox = "throw"
              THEN [st |-> s2, thrown |-> "MeasurementFailure"]
              ELSE [st |-> s2, thrown |-> "none"]

\* The finally block: document.body.removeChild(svgSpot) throws when the span
\* is not a child of the body, and what a finally block throws replaces what
\* the try block threw.
FinallyBlock(r) ==
    IF "svgSpot" \in r.st.bodyChildren
    THEN [st |-> [r.st EXCEPT !.bodyChildren = @ \ {"svgSpot"}],
          thrown |-> r.thrown]
    ELSE [st |-> r.st, thrown |-> "NotFoundError"]

\* A variant that moves the corner the wrong way.
EnlargedInward(bbox, strokeWidth) ==
    LET halfStrokeWidth == strokeWidth \div 2 IN
    [width |-> bbox.width + (halfStrokeWidth * 2),
     height |-> bbox.height + (halfStrokeWidth * 2),
     x |-> bbox.x + halfStrokeWidth,
     y |-> bbox.y + halfStrokeWidth]

\* The box enlarged by half the largest stroke width on every side.
Enlarged(bbox, strokeWidth) ==
    LET halfStrokeWidth == strokeWidth \div 2 IN
    [width |-> bbox.width + (halfStrokeWidth * 2),
     height |-> bbox.height + (halfStrokeWidth * 2),
     x |-> bbox.x - halfStrokeWidth,
     y |-> bbox.y - halfStrokeWidth]

ViewBox(m) ==
    FormatNum(m.x) \o " " \o FormatNum(m.y) \o " " \o FormatNum(m.width)
        \o " " \o FormatNum(m.height)

SetMeasurements(tag, m) ==
    setAttribute(
        setAttribute(setAttribute(tag, "width", FormatNum(m.width)),
                     "height", FormatNum(m.height)),
        "viewBox", ViewBox(m))

_transformMeasurements(st, env) ==
    LET svgText == toString(st.svgDom, FALSE)
        t == TryBlock(st, env)
        f == FinallyBlock(t)
    IN  IF f.thrown # "none"
        THEN [st |-> f.st, error |-> f.thrown, original |-> t.thrown]
        ELSE LET dom == parseFromString(svgText)
                 m == Enlarged(env.bbox,
                               _findLargestStrokeWidth(documentElement(dom)))
                 tag == SetMeasurements(documentElement(dom), m)
             IN  [st |-> [f.st EXCEPT !.svgDom = [dom EXCEPT !.childNodes[1] = tag],
                                      !.svgTag = tag,
                                      !.measurements = m],
                  error |-> "none", original |-> "none"]

(***************************************************************************)
(* loadString                                                              *)
(***************************************************************************)
\* A variant that only counts the nodes.
IsSvgDocumentAnyRoot(dom) == ~(Len(dom.childNodes) < 1)

IsSvgDocument(dom) ==
    ~(Len(dom.childNodes) < 1 \/ documentElement(dom).localName # "svg")

\* The renderer after the call, the error the call ends with ("none" when it
\* returns), the first error thrown in it, and which passes were entered.
loadString(st, svgString, env) ==
    LET dom == parseFromString(svgString)
        s1 == [st EXCEPT !.cachedImage = NoImage, !.svgDom = dom]
    IN  IF ~IsSvgDocument(dom)
        THEN [st |-> s1, error |-> "InvalidDocument",
              original |-> "InvalidDocument",
              ranText |-> FALSE, ranMeasure |-> FALSE]
        ELSE LET tag == _transformText(documentElement(dom))
                 s2 == [s1 EXCEPT !.svgTag = tag,
                                  !.svgDom = [dom EXCEPT !.childNodes[1] = tag]]
             IN  IF env.fonts = "throw"
                 THEN [st |-> s2, error |-> "FontFailure",
                       original |-> "FontFailure",
                       ranText |-> TRUE, ranMeasure |-> FALSE]
                 ELSE LET m == _transformMeasurements(s2, env) IN
                      [st |-> m.st, error |-> m.error, original |-> m.original,
                       ranText |-> TRUE, ranMeasure |-> TRUE]

\* The fields of the renderer take the values of st.
Becomes(st) ==
    /\ svgDom' = st.svgDom
    /\ svgTag' = st.svgTag
    /\ measurements' = st.measurements
    /\ cachedImage' = st.cachedImage
    /\ bodyChildren' = st.bodyChildren

\* What is remembered of a call: its input and environment, the error it ends
\* with, the first error thrown in it, the passes entered, and whether it
\* repeats, in the same environment, a call that returned.
CallRecord(op, svgString, env, r) ==
    [op |-> op, input |-> svgString, env |-> env, error |-> r.error,
     original |-> r.original, ranText |-> r.ranText,
     ranMeasure |-> r.ranMeasure,
     repeat |-> (last.op # "new" /\ last.error = "none" /\ last.env = env)]

(***************************************************************************)
(* _draw and _drawFromImage                                                *)
(***************************************************************************)
\* window.devicePixelRatio over the backing store ratio, both 1 here.
getDrawRatio == 1

Scales == {1, 2}

\* The data: URL an image is given as its source.
DataUrl(svgText) == [scheme |-> "data:image/svg+xml;utf8", text |-> svgText]

BlankCanvas == [drawn |-> FALSE]

_drawFromImage(st, cv, scale) ==
    IF st.cachedImage = NoImage THEN cv
    ELSE LET ratio == getDrawRatio * scale
             bbox == st.measurements
         IN  [drawn |-> TRUE, image |-> st.cachedImage,
              width |-> bbox.width * ratio, height |-> bbox.height * ratio,
              styleWidth |-> bbox.width, styleHeight |-> bbox.height]

\* The image _draw creates, with the scale its onload callback closes over.
NewImage(st, scale) ==
    [src |-> DataUrl(toString(st.svgDom, TRUE)), scale |-> scale]

(***************************************************************************)
(* The inputs.                                                             *)
(***************************************************************************)
Chars == {"a", "b", "\n"}

Strs == UNION {[1..n -> Chars] : n \in 0..MaxTextLen}

\* The attributes a function from names to values-or-null stands for.
AttrsOf(f) == [a \in {n \in DOMAIN f : f[n] # JsNull} |-> f[a]]

TextAttrs ==
    { AttrsOf(("x" :> p) @@ ("y" :> p) @@ ("font-size" :> fs)
                  @@ ("font-family" :> ff)) :
        p \in {JsNull, "5"}, fs \in {JsNull, "", "20"},
        ff \in {JsNull, "", "Times"} }

TextOf(s) == IF s = <<>> THEN <<>> ELSE <<TextNode(s)>>

\* The children of a text element: text alone, explicit line nodes, or a text
\* element inside it.
TextKids ==
    {TextOf(s) : s \in Strs}
      \cup { <<Element("tspan", NoAttrs, <<TextNode(<<"a", "\n", "b">>)>>)>>,
             <<TextNode(<<"a", "\n">>),
               Element("tspan", ("x" :> "0") @@ ("dy" :> "1.2em"),
                       <<TextNode(<<"b">>)>>)>>,
             <<Element("text", NoAttrs, <<TextNode(<<"a", "\n", "b">>)>>)>>,
             <<TextNode(<<"b">>),
               Element("text", ("font-size" :> "") @@ ("x" :> "5"),
                       <<TextNode(<<"a">>)>>)>> }

TextElems == {Element("text", a, k) : a \in TextAttrs, k \in TextKids}

TextRoots ==
    {Element("svg", NoAttrs, <<t>>) : t \in TextElems}
      \cup { Element("svg", NoAttrs,
                     <<Element("g", NoAttrs, <<t>>),
                       Element("text", NoAttrs, <<TextNode(<<"b", "\n", "\n">>)>>)>>) :
               t \in {e \in TextElems : e.attrs = NoAttrs} }

StrokeAttrs ==
    { AttrsOf(("stroke" :> st) @@ ("stroke-width" :> sw)) :
        st \in {JsNull, "", "red"},
        sw \in {JsNull, "", "0", "0.5", "1", "3", "-2", "abc"} }

StrokeRoots ==
    { Element("svg", a0,
              <<Element("rect", a1, <<>>),
                Element("g", NoAttrs,
                        <<TextNode(<<"a">>), Element("path", a2, <<>>)>>)>>) :
        a0 \in {NoAttrs, ("stroke-width" :> "1")},
        a1 \in StrokeAttrs, a2 \in StrokeAttrs }

\* The documents loaded into the pipeline.
Rect(a) == Element("rect", a, <<>>)

SvgTrees ==
    { Element("svg", NoAttrs,
          <<Rect(NoAttrs),
            Element("text", NoAttrs, <<TextNode(<<"a", "\n", "b">>)>>)>>),
      Element("svg", NoAttrs,
          <<Rect(("stroke" :> "red")),
            Element("text", ("font-size" :> "") @@ ("x" :> "5") @@ ("y" :> "5"),
                    <<TextNode(<<"a">>)>>)>>),
      Element("svg", NoAttrs,
          <<Rect(("stroke" :> "red") @@ ("stroke-width" :> "0.5")),
            Element("text", ("font-family" :> "Times"),
                <<Element("tspan", NoAttrs,
                          <<TextNode(<<"a", "\n", "b">>)>>)>>)>>),
      Element("svg", NoAttrs,
          <<Rect(("stroke-width" :> "3")),
            Element("text", ("stroke" :> "red"),
                <<Element("text", NoAttrs,
                          <<TextNode(<<"a", "\n", "b">>)>>)>>)>>),
      Element("svg", NoAttrs,
          <<Rect(("stroke-width" :> "abc")),
            Element("text", ("font-size" :> "20"), <<>>)>>),
      Element("svg",
          ("width" :> "3") @@ ("height" :> "3") @@ ("viewBox" :> "0 0 3 3"),
          <<Rect(("stroke" :> "red") @@ ("stroke-width" :> "2"))>>),
      Element("svg", ("stroke-width" :> "-2"), <<>>) }

\* Text that is not SVG: empty, not XML, XML with another root, and an svg
\* element that is never closed.
NotSvg ==
    { <<>>, <<JunkTok>>, SerializeNode(Element("notsvg", NoAttrs, <<>>)),
      <<OpenTok("svg", NoAttrs)>> }

Markups == {SerializeNode(t) : t \in SvgTrees} \cup NotSvg

DrawMarkups ==
    { SerializeNode(Element("svg", NoAttrs,
          <<Element("rect", ("stroke" :> "red"), <<>>)>>)),
      SerializeNode(Element("svg", NoAttrs,
          <<Element("text", NoAttrs, <<TextNode(<<"a", "\n", "b">>)>>)>>)),
      <<JunkTok>> }

DrawEnvs ==
    { OkEnv([x |-> 0 - 4, y |-> 2, width |-> 10, height |-> 6]),
      [OkEnv(AnyBBox) EXCEPT !.getBBox = "throw"] }

(***************************************************************************)
(* The pipeline: loadString on any text, and on the renderer's own         *)
(* toString().                                                             *)
(***************************************************************************)
NewCall == [op |-> "new", input |-> <<>>, env |-> OkEnv(AnyBBox),
            error |-> "none", original |-> "none",
            ranText |-> FALSE, ranMeasure |-> FALSE, repeat |-> FALSE]

\* The constructor.
Init ==
    /\ svgDom = Undefined
    /\ svgTag = Undefined
    /\ measurements = [x |-> 0, y |-> 0, width |-> 0, height |-> 0]
    /\ cachedImage = NoImage
    /\ pending = {}
    /\ canvas = BlankCanvas
    /\ bodyChildren = {}
    /\ last = NewCall

LoadString(svgString, env) ==
    LET r == loadString(Renderer, svgString, env) IN
    /\ Becomes(r.st)
    /\ last' = CallRecord("loadString", svgString, env, r)
    /\ UNCHANGED <<pending, canvas>>

\* loadString(toString()): the serialized document is loaded again.
Reload(env) ==
    /\ svgDom # Undefined
    /\ LET svgString == toString(svgDom, FALSE)
           r == loadString(Renderer, svgString, env)
       IN  /\ Becomes(r.st)
           /\ last' = CallRecord("reload", svgString, env, r)
    /\ UNCHANGED <<pending, canvas>>

Next ==
    \/ \E svgString \in Markups, env \in Envs : LoadString(svgString, env)
    \/ \E env \in Envs : Reload(env)

Spec == Init /\ [][Next]_vars

(***************************************************************************)
(* Drawing: fromString, measure, and the image's onload callback.          *)
(***************************************************************************)
\* _draw after a loadString that returned.
_draw(st, scale) ==
    IF st.cachedImage # NoImage
    THEN /\ canvas' = _drawFromImage(st, canvas, scale)
         /\ pending' = pending
    ELSE /\ canvas' = canvas
         /\ pending' = pending \cup {NewImage(st, scale)}

FromString(svgString, scale, env) ==
    LET r == loadString(Renderer, svgString, env) IN
    /\ Cardinality(pending) < MaxPending
    /\ Becomes(r.st)
    /\ last' = [op |-> "fromString", error |-> r.error]
    /\ IF r.error = "none" THEN _draw(r.st, scale)
       ELSE UNCHANGED <<pending, canvas>>

Measure(svgString, env) ==
    LET r == loadString(Renderer, svgString, env) IN
    /\ Becomes(r.st)
    /\ last' = [op |-> "measure", error |-> r.error]
    /\ UNCHANGED <<pending, canvas>>

\* img.onload of an image _draw created.
ImgOnload(img) ==
    /\ img \in pending
    /\ pending' = pending \ {img}
    /\ cachedImage' = img
    /\ canvas' = _drawFromImage([Renderer EXCEPT !.cachedImage = img], canvas,
                                img.scale)
    /\ last' = [op |-> "onload", error |-> "none"]
    /\ UNCHANGED <<svgDom, svgTag, measurements, bodyChildren>>

InitDraw == Init

NextDraw ==
    \/ \E svgString \in DrawMarkups, scale \in Scales, env \in DrawEnvs :
           FromString(svgString, scale, env)
    \/ \E svgString \in DrawMarkups, env \in DrawEnvs : Measure(svgString, env)
    \/ \E img \in pending : ImgOnload(img)

SpecDraw == InitDraw /\ [][NextDraw]_vars

(***************************************************************************)
(* The text normalizer alone, applied again and again to a tree.           *)
(***************************************************************************)
InitText ==
    /\ svgTag \in TextRoots
    /\ svgDom = [childNodes |-> <<svgTag>>]
    /\ measurements = [x |-> 0, y |-> 0, width |-> 0, height |-> 0]
    /\ cachedImage = NoImage
    /\ pending = {}
    /\ canvas = BlankCanvas
    /\ bodyChildren = {}
    /\ last = [op |-> "text", pass |-> 0, before |-> svgTag]

TransformText ==
    /\ last.pass < MaxPasses
    /\ svgTag' = _transformText(svgTag)
    /\ svgDom' = [childNodes |-> <<svgTag'>>]
    /\ last' = [op |-> "text", pass |-> last.pass + 1, before |-> svgTag]
    /\ UNCHANGED <<measurements, cachedImage, pending, canvas, bodyChildren>>

NextText == TransformText

SpecText == InitText /\ [][NextText]_vars

(***************************************************************************)
(* The stroke width analyzer alone.                                        *)
(***************************************************************************)
InitStroke ==
    /\ svgTag \in StrokeRoots
    /\ svgDom = [childNodes |-> <<svgTag>>]
    /\ measurements = [x |-> 0, y |-> 0, width |-> 0, height |-> 0]
    /\ cachedImage = NoImage
    /\ pending = {}
    /\ canvas = BlankCanvas
    /\ bodyChildren = {}
    /\ last = [op |-> "stroke", done |-> FALSE, result |-> 0]

FindLargestStrokeWidth ==
    /\ ~last.done
    /\ last' = [op |-> "stroke", done |-> TRUE,
                result |-> _findLargestStrokeWidth(svgTag)]
    /\ UNCHANGED <<svgDom, svgTag, measurements, cachedImage, pending, canvas,
                   bodyChildren>>

NextStroke == FindLargestStrokeWidth

SpecStroke == InitStroke /\ [][NextStroke]_vars

(***************************************************************************)
(* Properties.                                                             *)
(***************************************************************************)
IsLoad == last.op \in {"loadString", "reload"}

\* The paths of the elements of a tree.
RECURSIVE ElementPaths(_, _)
ElementPaths(n, path) ==
    IF ~IsElem(n) THEN {}
    ELSE {path} \cup UNION { ElementPaths(n.childNodes[i], Append(path, i)) :
                               i \in DOMAIN n.childNodes }

TextPaths(tree) ==
    {p \in ElementPaths(tree, <<>>) : NodeAt(tree, p).localName = "text"}

ContainsText(n) == IsElem(n) /\ TextPaths(n) # {}

SetMax(S) == CHOOSE m \in S : \A k \in S : k <= m

\* The lines of a text, by the positions of its newlines.
Newlines(s) == {j \in DOMAIN s : s[j] = "\n"}

LineCount(s) == Cardinality(Newlines(s)) + 1

NthNewline(s, i) ==
    IF i = 0 THEN 0
    ELSE IF i > Cardinality(Newlines(s)) THEN Len(s) + 1
    ELSE CHOOSE j \in Newlines(s) :
             Cardinality({m \in Newlines(s) : m <= j}) = i

Line(s, i) == SubSeq(s, NthNewline(s, i - 1) + 1, NthNewline(s, i) - 1)

IsLineNode(n, line) ==
    /\ IsElem(n)
    /\ n.localName = "tspan"
    /\ n.attrs = ("x" :> "0") @@ ("dy" :> "1.2em")
    /\ textContent(n) = line
    /\ childElementCount(n) = 0

\* C1: a loadString call that fails leaves the document and the measurement
\* (and so the serialized text) as they were before the call; they change only
\* in a call that returns.
C1_FailedLoadChangesNothing ==
    [][last'.error # "none" =>
           (svgDom' = svgDom /\ measurements' = measurements)]_vars

\* C2: a cached image is always the image decoded from the serialized text
\* (fonts embedded) of the current document.
C2_CachedImageIsOfCurrentDocument ==
    cachedImage # NoImage =>
        cachedImage.src = DataUrl(toString(svgDom, TRUE))

\* C3: after every loadString call nothing the call attached is left under
\* document.body, and a call that fails fails with the first error thrown
\* in it.
C3_AttachmentReleasedErrorKept ==
    IsLoad => /\ bodyChildren = {}
              /\ last.error # "none" => last.error = last.original

\* C4: loadString fails with InvalidDocument, running neither pass, exactly for
\* the inputs whose parse has no node or a root that is not svg; for the others
\* the text pass runs, and the measurement pass too before the call returns.
C4_RootValidation ==
    IsLoad =>
        LET dom == parseFromString(last.input)
            valid == dom.childNodes # <<>> /\ dom.childNodes[1].localName = "svg"
        IN  /\ ~valid => /\ last.error = "InvalidDocument"
                         /\ ~last.ranText
                         /\ ~last.ranMeasure
            /\ valid => /\ last.error # "InvalidDocument"
                        /\ last.ranText
                        /\ last.error = "none" => last.ranMeasure

\* A text that is not XML was rejected.
C4_Witness ==
    /\ last.op = "loadString"
    /\ last.input = <<JunkTok>>
    /\ last.error = "InvalidDocument"

\* The contribution of one element to the stroke width, as C5 states it.
Contribution(e) ==
    IF "stroke" \in DOMAIN e.attrs /\ "stroke-width" \notin DOMAIN e.attrs
    THEN 4
    ELSE IF /\ "stroke-width" \in DOMAIN e.attrs
            /\ e.attrs["stroke-width"] \in NumericStrings
            /\ Number(e.attrs["stroke-width"]) >= 0
         THEN Number(e.attrs["stroke-width"])
         ELSE 0

\* C5: the analyzer answers the maximum over all elements of: 1 for a stroke
\* without a stroke-width, else the stroke-width when it is a non-negative
\* number, else 0.
C5_LargestStrokeWidth ==
    (last.op = "stroke" /\ last.done) =>
        last.result = SetMax({ Contribution(NodeAt(svgTag, p)) :
                                 p \in ElementPaths(svgTag, <<>>) })

\* C6: after a loadString call that returns, the measurement is the box the
\* oracle answered, enlarged on every side by half the largest stroke width of
\* the document, its width and height are not negative, and the root element's
\* width, height and viewBox are the strings of the same numbers.
C6_MeasurementAndRootAgree ==
    (IsLoad /\ last.error = "none") =>
        LET bbox == last.env.bbox
            stroke == _findLargestStrokeWidth(svgTag)
            m == measurements
        IN  /\ 2 * m.x = (2 * bbox.x) - stroke
            /\ 2 * m.y = (2 * bbox.y) - stroke
            /\ m.width = bbox.width + stroke
            /\ m.height = bbox.height + stroke
            /\ m.width >= 0 /\ m.height >= 0
            /\ svgDom = [childNodes |-> <<svgTag>>]
            /\ getAttribute(svgTag, "width") = FormatNum(m.width)
            /\ getAttribute(svgTag, "height") = FormatNum(m.height)
            /\ getAttribute(svgTag, "viewBox") =
                   FormatNum(m.x) \o " " \o FormatNum(m.y) \o " "
                       \o FormatNum(m.width) \o " " \o FormatNum(m.height)

\* A document with a stroke width of 3 was measured in a box that is not at
\* the origin.
C6_Witness ==
    /\ IsLoad /\ last.error = "none"
    /\ _findLargestStrokeWidth(svgTag) = 12
    /\ last.env.bbox.x # 0
    /\ getAttribute(svgTag, "viewBox") = "-2.5 -1 5.5 4.5"

LinesMade(e, r) ==
    LET content == textContent(e) IN
    IF content # <<>>
    THEN /\ Len(r.childNodes) = LineCount(content)
         /\ \A i \in DOMAIN r.childNodes :
                IsLineNode(r.childNodes[i], Line(content, i))
    ELSE r.childNodes = <<>>

\* C8 as stated: a text element without child elements gets one line node per
\* line of its text, in order, with x = 0 and dy = 1.2em, and none when its
\* text is empty; one with a child element keeps its children and its content
\* unchanged.
C8_LineNodes ==
    (last.op = "text" /\ last.pass = 1) =>
        \A p \in TextPaths(last.before) :
            LET e == NodeAt(last.before, p)
                r == NodeAt(svgTag, p)
            IN  IF childElementCount(e) = 0 THEN LinesMade(e, r)
                ELSE /\ r.childNodes = e.childNodes
                     /\ textContent(r) = textContent(e)

\* C8 amended: as C8, but a text element with a child element keeps the number
\* and order of its children, and each child that neither is nor contains a
\* text element unchanged.
C8_LineNodesAmended ==
    (last.op = "text" /\ last.pass = 1) =>
        \A p \in TextPaths(last.before) :
            LET e == NodeAt(last.before, p)
                r == NodeAt(svgTag, p)
            IN  IF childElementCount(e) = 0 THEN LinesMade(e, r)
                ELSE /\ Len(r.childNodes) = Len(e.childNodes)
                     /\ \A i \in DOMAIN e.childNodes :
                            /\ r.childNodes[i].kind = e.childNodes[i].kind
                            /\ IsElem(e.childNodes[i]) =>
                                   r.childNodes[i].localName
                                       = e.childNodes[i].localName
                            /\ ~ContainsText(e.childNodes[i]) =>
                                   r.childNodes[i] = e.childNodes[i]

\* One pass ran over a text element whose text is three lines, and over one
\* that has a child element.
C8_Witness ==
    /\ last.op = "text" /\ last.pass = 1
    /\ \E p \in TextPaths(last.before) :
           /\ childElementCount(NodeAt(last.before, p)) = 0
           /\ LineCount(textContent(NodeAt(last.before, p))) = 3
           /\ Len(NodeAt(svgTag, p).childNodes) = 3
    /\ \E p \in TextPaths(last.before) :
           childElementCount(NodeAt(last.before, p)) > 0

FontDefault(a) == IF a = "font-size" THEN "14" ELSE "Helvetica"

====
